---- MODULE Spec2Model ----
(***************************************************************************)
(* Model of the two procedural animations of the repository:               *)
(*   icone_shine/icon_shine_effect.py  create_shine_animation (the sweep)  *)
(*   year_scroll/year_scroll.py        main (the scroll)                   *)
(* and of their pure helpers (the easing curves, create_feathered_mask).   *)
(*                                                                         *)
(* Times are exact rationals num/den (seconds); on the grid used here the  *)
(* double-precision product time*FPS truncates to the same integer as the  *)
(* exact product, so int(t * FPS) is IntTrunc(num * fps, den).             *)
(***************************************************************************)
EXTENDS Integers, Sequences, FiniteSets

VARIABLES
    anim,       \* which script runs: "sweep", "scroll", or "none"
    cfg,        \* the timeline constants of the script
    env,        \* what the file system / encoder will answer
    pc,         \* position of the script
    i,          \* loop variable (i / frame_idx)
    emitted,    \* frames handed to the sink's write call, in call order
    accepted,   \* frame indices the sink actually took, in order
    sinkState,  \* "unopened", "open", "broken", "closed"
    opens,      \* number of times the sink was opened
    closes,     \* number of times the sink was closed / released
    faultAt,    \* index of the first frame the sink could not accept, or -1
    outcome,    \* how the run ended
    fn          \* state of the pure-function specifications

vars == <<anim, cfg, env, pc, i, emitted, accepted, sinkState, opens, closes,
          faultAt, outcome, fn>>

-----------------------------------------------------------------------------
(* Bounds of the explored configurations. *)
MaxTime == 4
MaxDen == 3
MaxFps == 3
MaxGrid == 8
MaxH == 6
MaxW == 2
MaxFeather == 1
MaxFrame == 3
MaxText == 4

-----------------------------------------------------------------------------
(* Arithmetic helpers. *)

\* Python's int() of the real n/d (d > 0): truncation toward zero.
IntTrunc(n, d) == IF n >= 0 THEN n \div d ELSE -((-n) \div d)

\* The set of integers nearest to n/d (d > 0); both neighbours on a tie.
Nearest(n, d) ==
    LET f == n \div d
        r == n - f * d
    IN  IF 2 * r < d THEN {f}
        ELSE IF 2 * r > d THEN {f + 1}
        ELSE {f, f + 1}

-----------------------------------------------------------------------------
(* Timeline arithmetic of the two scripts. *)

\* TOTAL_FRAMES = int(TOTAL_DURATION * FPS); num_total_frames likewise.
CeilFrames(c) == -((-(c.total * c.fps)) \div c.den)
TOTAL_FRAMES(c) == IntTrunc(c.total * c.fps, c.den)

ANIM_START_FRAME(c) == IntTrunc(c.start * c.fps, c.den)

ANIM_END_FRAME(c) == ANIM_START_FRAME(c) + IntTrunc(c.dur * c.fps, c.den)

\* for i in range(n): the index after i.
RangeSkip(k) == k + 2
RangeNext(k) == k + 1

\* line 123: the frame goes through the mask/composite branch.
AnimatingInclusiveEnd(k, c) == k >= ANIM_START_FRAME(c) /\ k <= ANIM_END_FRAME(c)
IsAnimating(k, c) == k >= ANIM_START_FRAME(c) /\ k < ANIM_END_FRAME(c)

\* line 125: progress of frame k inside the window, as <<num, den>>.
SweepProgress(k, c) ==
    <<k - ANIM_START_FRAME(c), ANIM_END_FRAME(c) - ANIM_START_FRAME(c)>>

\* year_scroll line 205.
ScrollProgress(k, c) ==
    IF TOTAL_FRAMES(c) > 1 THEN <<k, TOTAL_FRAMES(c) - 1>> ELSE <<0, 1>>

-----------------------------------------------------------------------------
(* Easing, on exact rationals t = <<n, d>> with d > 0. *)

\* 1 - (1 - t) * (1 - t)
ease_out_quad(t) ==
    LET n == t[1]
        d == t[2]
    IN  <<d * d - (d - n) * (d - n), d * d>>

\* the second branch without its "+ 2"
CubicNoShift(t) ==
    LET n == t[1]
        d == t[2]
        u == 2 * n - 2 * d
    IN  IF 2 * n < d
        THEN <<4 * n * n * n, d * d * d>>
        ELSE <<u * u * u, 2 * d * d * d>>

\* t *= 2; if t < 1: 0.5*t^3; t -= 2; 0.5*(t^3 + 2)
ease_in_out_cubic(t) ==
    LET n == t[1]
        d == t[2]
        u == 2 * n - 2 * d
    IN  IF 2 * n < d
        THEN <<4 * n * n * n, d * d * d>>
        ELSE <<u * u * u + 2 * d * d * d, 2 * d * d * d>>

-----------------------------------------------------------------------------
(* The frame handed to the sink. *)

SweepFrameOf(k, c) ==
    IF IsAnimating(k, c)
    THEN [idx |-> k, kind |-> "composite", progress |-> SweepProgress(k, c),
          eased |-> ease_out_quad(SweepProgress(k, c))]
    ELSE [idx |-> k, kind |-> "base", progress |-> <<0, 1>>, eased |-> <<0, 1>>]

ScrollFrameOf(k, c) ==
    [idx |-> k, kind |-> "composite", progress |-> ScrollProgress(k, c),
     eased |-> ease_in_out_cubic(ScrollProgress(k, c))]

-----------------------------------------------------------------------------
(* Configurations and environments. *)

\* numerators of the durations (seconds = numerator / den) and frame rates;
\* zero stands for the non-positive settings
Times == 0 .. MaxTime
Rates == 0 .. MaxFps

DefaultSweepCfg == [total |-> 5, start |-> 1, dur |-> 2, den |-> 2, fps |-> 30]
DefaultScrollCfg == [total |-> 2, start |-> 0, dur |-> 0, den |-> 1, fps |-> 30]

SweepCfgs ==
    [total : Times, start : Times, dur : Times, den : 1 .. MaxDen, fps : Rates]
        \cup {DefaultSweepCfg}

ScrollCfgs ==
    [total : Times, start : {0}, dur : {0}, den : 1 .. MaxDen, fps : Rates]
        \cup {DefaultScrollCfg}

SweepEnvs == [assetExists : BOOLEAN, assetLoad : {"ok", "none"},
              sinkStarts : BOOLEAN]

ScrollEnvs == [assetExists : BOOLEAN,
               assetLoad : {"ok", "ioerror", "fallback_ok", "fallback_fail"},
               sinkStarts : BOOLEAN]

NoFn == [kind |-> "none"]

Init ==
    /\ \/ anim = "sweep" /\ cfg \in SweepCfgs /\ env \in SweepEnvs
       \/ anim = "scroll" /\ cfg \in ScrollCfgs /\ env \in ScrollEnvs
    /\ pc = "start"
    /\ i = 0
    /\ emitted = <<>>
    /\ accepted = <<>>
    /\ sinkState = "unopened"
    /\ opens = 0
    /\ closes = 0
    /\ faultAt = -1
    /\ outcome = "running"
    /\ fn = NoFn

Finish(how) == pc' = "done" /\ outcome' = how

-----------------------------------------------------------------------------
(* create_shine_animation *)

\* lines 38-42
SweepCheckIcon ==
    /\ anim = "sweep" /\ pc = "start"
    /\ IF env.assetExists
       THEN pc' = "imread" /\ UNCHANGED outcome
       ELSE Finish("returned_error")
    /\ UNCHANGED <<anim, cfg, env, i, emitted, accepted, sinkState, opens,
                   closes, faultAt, fn>>

\* imread's None is not tested
SweepImreadUnchecked ==
    /\ anim = "sweep" /\ pc = "imread"
    /\ pc' = "popen"
    /\ UNCHANGED <<anim, cfg, env, i, emitted, accepted, sinkState, opens,
                   closes, faultAt, outcome, fn>>

\* lines 45-48
SweepImread ==
    /\ anim = "sweep" /\ pc = "imread"
    /\ IF env.assetLoad = "ok"
       THEN pc' = "popen" /\ UNCHANGED outcome
       ELSE Finish("returned_error")
    /\ UNCHANGED <<anim, cfg, env, i, emitted, accepted, sinkState, opens,
                   closes, faultAt, fn>>

\* lines 108-113
SweepPopen ==
    /\ anim = "sweep" /\ pc = "popen"
    /\ IF env.sinkStarts
       THEN /\ pc' = "loop"
            /\ opens' = opens + 1
            /\ sinkState' = "open"
            /\ UNCHANGED outcome
       ELSE /\ Finish("returned_error")
            /\ UNCHANGED <<opens, sinkState>>
    /\ UNCHANGED <<anim, cfg, env, i, emitted, accepted, closes, faultAt, fn>>

\* lines 121-152, one iteration; proc.stdin.write takes the frame
SweepFrameWritten ==
    /\ anim = "sweep" /\ pc = "loop" /\ i < TOTAL_FRAMES(cfg)
    /\ sinkState = "open"
    /\ emitted' = Append(emitted, SweepFrameOf(i, cfg))
    /\ accepted' = Append(accepted, i)
    /\ i' = RangeNext(i)
    /\ UNCHANGED <<anim, cfg, env, pc, sinkState, opens, closes, faultAt,
                   outcome, fn>>

\* lines 121-149, proc.stdin.write raises BrokenPipeError; nothing catches it
SweepFrameBrokenPipe ==
    /\ anim = "sweep" /\ pc = "loop" /\ i < TOTAL_FRAMES(cfg)
    /\ sinkState = "open"
    /\ emitted' = Append(emitted, SweepFrameOf(i, cfg))
    /\ sinkState' = "broken"
    /\ faultAt' = i
    /\ Finish("raised")
    /\ UNCHANGED <<anim, cfg, env, i, accepted, opens, closes, fn>>

\* lines 154-164: communicate() closes the pipe and waits; returncode decides
SweepFinalize ==
    /\ anim = "sweep" /\ pc = "loop" /\ ~(i < TOTAL_FRAMES(cfg))
    /\ closes' = closes + 1
    /\ sinkState' = "closed"
    /\ \E rc \in {0, 1} :
          Finish(IF rc # 0 THEN "encoder_error" ELSE "success")
    /\ UNCHANGED <<anim, cfg, env, i, emitted, accepted, opens, faultAt, fn>>

SweepNext ==
    \/ SweepCheckIcon
    \/ SweepImread
    \/ SweepPopen
    \/ SweepFrameWritten
    \/ SweepFrameBrokenPipe
    \/ SweepFinalize

-----------------------------------------------------------------------------
(* year_scroll main *)

\* lines 138-140
ScrollCheckFont ==
    /\ anim = "scroll" /\ pc = "start"
    /\ IF env.assetExists
       THEN pc' = "load_font" /\ UNCHANGED outcome
       ELSE Finish("exit_1")
    /\ UNCHANGED <<anim, cfg, env, i, emitted, accepted, sinkState, opens,
                   closes, faultAt, fn>>

\* lines 145-171: IOError exits; any other exception retries with a default
\* size and exits when that fails too
ScrollLoadFont ==
    /\ anim = "scroll" /\ pc = "load_font"
    /\ IF env.assetLoad \in {"ok", "fallback_ok"}
       THEN pc' = "open_writer" /\ UNCHANGED outcome
       ELSE Finish("exit_1")
    /\ UNCHANGED <<anim, cfg, env, i, emitted, accepted, sinkState, opens,
                   closes, faultAt, fn>>

\* lines 195-199
ScrollOpenWriter ==
    /\ anim = "scroll" /\ pc = "open_writer"
    /\ IF env.sinkStarts
       THEN /\ pc' = "loop"
            /\ opens' = opens + 1
            /\ sinkState' = "open"
            /\ UNCHANGED outcome
       ELSE /\ Finish("exit_1")
            /\ UNCHANGED <<opens, sinkState>>
    /\ UNCHANGED <<anim, cfg, env, i, emitted, accepted, closes, faultAt, fn>>

\* lines 260-261: frame_idx % (FPS // 2) divides by zero when FPS // 2 = 0
ScrollReport ==
    IF cfg.fps \div 2 = 0
    THEN Finish("raised") /\ UNCHANGED i
    ELSE i' = RangeNext(i) /\ UNCHANGED <<pc, outcome>>

\* lines 204-261, one iteration; video_writer.write stores the frame
ScrollFrameWritten ==
    /\ anim = "scroll" /\ pc = "loop" /\ i < TOTAL_FRAMES(cfg)
    /\ sinkState = "open"
    /\ emitted' = Append(emitted, ScrollFrameOf(i, cfg))
    /\ accepted' = Append(accepted, i)
    /\ ScrollReport
    /\ UNCHANGED <<anim, cfg, env, sinkState, opens, closes, faultAt, fn>>

\* lines 204-261, one iteration; the writer has failed and write() returns
\* without storing the frame; line 258 inspects nothing
ScrollFrameDropped ==
    /\ anim = "scroll" /\ pc = "loop" /\ i < TOTAL_FRAMES(cfg)
    /\ sinkState \in {"open", "broken"}
    /\ emitted' = Append(emitted, ScrollFrameOf(i, cfg))
    /\ sinkState' = "broken"
    /\ faultAt' = IF faultAt = -1 THEN i ELSE faultAt
    /\ ScrollReport
    /\ UNCHANGED <<anim, cfg, env, accepted, opens, closes, fn>>

\* lines 204-258; video_writer.write raises cv2.error; nothing catches it
ScrollFrameWriteRaises ==
    /\ anim = "scroll" /\ pc = "loop" /\ i < TOTAL_FRAMES(cfg)
    /\ sinkState \in {"open", "broken"}
    /\ emitted' = Append(emitted, ScrollFrameOf(i, cfg))
    /\ sinkState' = "broken"
    /\ faultAt' = IF faultAt = -1 THEN i ELSE faultAt
    /\ Finish("raised")
    /\ UNCHANGED <<anim, cfg, env, i, accepted, opens, closes, fn>>

\* lines 263-264
ScrollFinalize ==
    /\ anim = "scroll" /\ pc = "loop" /\ ~(i < TOTAL_FRAMES(cfg))
    /\ closes' = closes + 1
    /\ sinkState' = "closed"
    /\ Finish("success")
    /\ UNCHANGED <<anim, cfg, env, i, emitted, accepted, opens, faultAt, fn>>

ScrollNext ==
    \/ ScrollCheckFont
    \/ ScrollLoadFont
    \/ ScrollOpenWriter
    \/ ScrollFrameWritten
    \/ ScrollFrameDropped
    \/ ScrollFrameWriteRaises
    \/ ScrollFinalize

Next == SweepNext \/ ScrollNext

Spec == Init /\ [][Next]_vars

-----------------------------------------------------------------------------
(* The easing curves as pure functions: two grid points t1, t2 are drawn    *)
(* and the chosen curve is applied to both.                                 *)

Ease(curve, t) ==
    IF curve = "ease_out_quad" THEN ease_out_quad(t) ELSE ease_in_out_cubic(t)

Idle ==
    /\ anim = "none"
    /\ cfg = DefaultSweepCfg
    /\ env = [assetExists |-> TRUE, assetLoad |-> "ok", sinkStarts |-> TRUE]
    /\ pc = "done"
    /\ i = 0
    /\ emitted = <<>>
    /\ accepted = <<>>
    /\ sinkState = "unopened"
    /\ opens = 0
    /\ closes = 0
    /\ faultAt = -1
    /\ outcome = "running"

\* the rationals k/n of [0,1] with n <= MaxGrid, as <<k, n>>
GridPoints == {t \in (0 .. MaxGrid) \X (1 .. MaxGrid) : t[1] <= t[2]}

InitEase ==
    /\ Idle
    /\ \E curve \in {"ease_out_quad", "ease_in_out_cubic"} :
       \E t1 \in GridPoints : \E t2 \in GridPoints :
          fn = [kind |-> "ease", curve |-> curve, t1 |-> t1, t2 |-> t2,
                applied |-> FALSE, r1 |-> <<0, 1>>, r2 |-> <<0, 1>>]

EaseApply ==
    /\ fn.kind = "ease" /\ ~fn.applied
    /\ fn' = [fn EXCEPT !.applied = TRUE,
                        !.r1 = Ease(fn.curve, fn.t1),
                        !.r2 = Ease(fn.curve, fn.t2)]
    /\ UNCHANGED <<anim, cfg, env, pc, i, emitted, accepted, sinkState, opens,
                   closes, faultAt, outcome>>

NextEase == EaseApply

SpecEase == InitEase /\ [][NextEase]_vars

-----------------------------------------------------------------------------
(* create_feathered_mask as a pure function of its four arguments.          *)

Min(a, b) == IF a < b THEN a ELSE b
Max(a, b) == IF a > b THEN a ELSE b

\* cv2.rectangle(img, (x1, y1), (x2, y2), 255, -1): the filled rectangle
\* contains both corners; pixels outside the image are clipped away.
RectangleFill(h, w, x1, y1, x2, y2) ==
    [r \in 0 .. h - 1 |->
        [c \in 0 .. w - 1 |->
            IF /\ Min(x1, x2) <= c /\ c <= Max(x1, x2)
               /\ Min(y1, y2) <= r /\ r <= Max(y1, y2)
            THEN 255 ELSE 0]]

\* border rows of the blur are mirrored without repeating the edge row
RECURSIVE Reflect101(_, _)
Reflect101(p, len) ==
    IF len = 1 THEN 0
    ELSE IF p < 0 THEN Reflect101(-p, len)
    ELSE IF p >= len THEN Reflect101(2 * (len - 1) - p, len)
    ELSE p

\* GaussianBlur with a (2*feather_px+1)-square normalised positive kernel,
\* abstracted to what the kernel's support decides: a pixel stays 255 when
\* every pixel under the kernel is 255, stays 0 when every one is 0, and is
\* some blend otherwise.
GaussianBlurClass(mask, h, w, ksize) ==
    LET half == (ksize - 1) \div 2
        under(r, c) == {mask[Reflect101(r + dr, h)][Reflect101(c + dc, w)] :
                            dr \in -half .. half, dc \in -half .. half}
    IN  [r \in 0 .. h - 1 |->
            [c \in 0 .. w - 1 |->
                IF under(r, c) = {255} THEN "full"
                ELSE IF under(r, c) = {0} THEN "zero"
                ELSE "blend"]]

strip_top(frame_h, visible_strip_h) == frame_h \div 2 - visible_strip_h \div 2

strip_bottom(frame_h, visible_strip_h) == frame_h \div 2 + visible_strip_h \div 2

InitMask ==
    /\ Idle
    /\ \E frame_w \in 1 .. MaxW : \E frame_h \in 1 .. MaxH :
       \E visible_strip_h \in 0 .. frame_h : \E feather_px \in 0 .. MaxFeather :
          fn = [kind |-> "mask", frame_w |-> frame_w, frame_h |-> frame_h,
                visible_strip_h |-> visible_strip_h, feather_px |-> feather_px,
                built |-> FALSE, mask |-> <<>>, feathered_mask |-> <<>>]

create_feathered_mask ==
    /\ fn.kind = "mask" /\ ~fn.built
    /\ LET mask == RectangleFill(fn.frame_h, fn.frame_w,
                                 0, strip_top(fn.frame_h, fn.visible_strip_h),
                                 fn.frame_w,
                                 strip_bottom(fn.frame_h, fn.visible_strip_h))
           blur_ksize == fn.feather_px * 2 + 1
       IN  fn' = [fn EXCEPT !.built = TRUE,
                            !.mask = mask,
                            !.feathered_mask =
                                GaussianBlurClass(mask, fn.frame_h, fn.frame_w,
                                                  blur_ksize)]
    /\ UNCHANGED <<anim, cfg, env, pc, i, emitted, accepted, sinkState, opens,
                   closes, faultAt, outcome>>

NextMask == create_feathered_mask

SpecMask == InitMask /\ [][NextMask]_vars

-----------------------------------------------------------------------------
(* The clipped copy of the text block onto the frame-sized canvas in the    *)
(* scroll loop (year_scroll main, lines 212-245), as a pure function of     *)
(* the frame size, the text-image size and current_y_pil_top.               *)

\* line 216
dst_x_offset_canvas(FRAME_WIDTH, text_img_w) == (FRAME_WIDTH - text_img_w) \div 2

\* line 223
eff_dst_y1(current_y_pil_top) == Max(0, current_y_pil_top)

\* line 224
eff_dst_y2(current_y_pil_top, text_img_h, FRAME_HEIGHT) ==
    Min(FRAME_HEIGHT, current_y_pil_top + text_img_h)

\* the source top row is left at src_y1_text_img
SrcTopUnclipped(current_y_pil_top) == 0

\* line 226
eff_src_y1_text_img(current_y_pil_top) ==
    0 + (eff_dst_y1(current_y_pil_top) - current_y_pil_top)

\* line 227
eff_src_y2_text_img(current_y_pil_top, text_img_h, FRAME_HEIGHT) ==
    text_img_h - ((current_y_pil_top + text_img_h)
                    - eff_dst_y2(current_y_pil_top, text_img_h, FRAME_HEIGHT))

\* line 234
eff_dst_x1(FRAME_WIDTH, text_img_w) ==
    Max(0, dst_x_offset_canvas(FRAME_WIDTH, text_img_w))

\* line 235
eff_dst_x2(FRAME_WIDTH, text_img_w) ==
    Min(FRAME_WIDTH, dst_x_offset_canvas(FRAME_WIDTH, text_img_w) + text_img_w)

\* line 237
eff_src_x1_text_img(FRAME_WIDTH, text_img_w) ==
    0 + (eff_dst_x1(FRAME_WIDTH, text_img_w)
            - dst_x_offset_canvas(FRAME_WIDTH, text_img_w))

\* line 238
eff_src_x2_text_img(FRAME_WIDTH, text_img_w) ==
    text_img_w - ((dst_x_offset_canvas(FRAME_WIDTH, text_img_w) + text_img_w)
                    - eff_dst_x2(FRAME_WIDTH, text_img_w))

\* numpy's a[lo:hi] on an axis of length len: a negative bound counts from
\* the end, both bounds are clamped to the axis; the indices selected, in order
SliceBound(k, len) == IF k < 0 THEN Max(k + len, 0) ELSE Min(k, len)

SliceIndices(lo, hi, len) ==
    [j \in 1 .. Max(0, SliceBound(hi, len) - SliceBound(lo, len)) |->
        SliceBound(lo, len) + j - 1]

Transparent == <<-1, -1>>

\* numpy's canvas[rows, cols] = source_slice: the shapes must agree, an axis
\* of length one being repeated; otherwise the assignment raises ValueError.
\* A canvas pixel is recorded as the source pixel copied onto it.
Broadcastable(dstIdx, srcIdx) ==
    Len(srcIdx) = Len(dstIdx) \/ Len(srcIdx) = 1

AssignSlice(canvas, dstRows, dstCols, srcRows, srcCols) ==
    LET at(idx, j) == IF Len(idx) = 1 THEN idx[1] ELSE idx[j]
        pos(idx, v) == CHOOSE j \in 1 .. Len(idx) : idx[j] = v
        inRows == {dstRows[j] : j \in 1 .. Len(dstRows)}
        inCols == {dstCols[j] : j \in 1 .. Len(dstCols)}
    IN  [r \in DOMAIN canvas |->
            [c \in DOMAIN canvas[r] |->
                IF r \in inRows /\ c \in inCols
                THEN <<at(srcRows, pos(dstRows, r)), at(srcCols, pos(dstCols, c))>>
                ELSE canvas[r][c]]]

ClipInputs ==
    [FRAME_WIDTH : 1 .. MaxFrame, FRAME_HEIGHT : 1 .. MaxFrame,
     text_img_w : 1 .. MaxText, text_img_h : 1 .. MaxText,
     current_y_pil_top : -(MaxText + 1) .. (MaxFrame + 1)]

InitClip ==
    /\ Idle
    /\ \E in \in ClipInputs :
          fn = [kind |-> "clip", in |-> in, placed |-> FALSE, copied |-> FALSE,
                raised |-> FALSE, dst_y |-> <<0, 0>>, dst_x |-> <<0, 0>>,
                src_y |-> <<0, 0>>, src_x |-> <<0, 0>>, canvas |-> <<>>]

\* lines 212-245 of one loop iteration
PlaceText ==
    /\ fn.kind = "clip" /\ ~fn.placed
    /\ LET FW == fn.in.FRAME_WIDTH
           FH == fn.in.FRAME_HEIGHT
           tw == fn.in.text_img_w
           th == fn.in.text_img_h
           y == fn.in.current_y_pil_top
           dy1 == eff_dst_y1(y)
           dy2 == eff_dst_y2(y, th, FH)
           sy1 == eff_src_y1_text_img(y)
           sy2 == eff_src_y2_text_img(y, th, FH)
           dx1 == eff_dst_x1(FW, tw)
           dx2 == eff_dst_x2(FW, tw)
           sx1 == eff_src_x1_text_img(FW, tw)
           sx2 == eff_src_x2_text_img(FW, tw)
           zeros == [r \in 0 .. FH - 1 |-> [c \in 0 .. FW - 1 |-> Transparent]]
           srcRows == SliceIndices(sy1, sy2, th)
           srcCols == SliceIndices(sx1, sx2, tw)
           dstRows == SliceIndices(dy1, dy2, FH)
           dstCols == SliceIndices(dx1, dx2, FW)
           guard == dy2 > dy1 /\ dx2 > dx1 /\ sy2 > sy1 /\ sx2 > sx1
           nonEmpty == Len(srcRows) * Len(srcCols) > 0
           fits == Broadcastable(dstRows, srcRows) /\ Broadcastable(dstCols, srcCols)
       IN  fn' = [fn EXCEPT
                    !.placed = TRUE,
                    !.dst_y = <<dy1, dy2>>, !.dst_x = <<dx1, dx2>>,
                    !.src_y = <<sy1, sy2>>, !.src_x = <<sx1, sx2>>,
                    !.copied = guard /\ nonEmpty /\ fits,
                    !.raised = guard /\ nonEmpty /\ ~fits,
                    !.canvas = IF guard /\ nonEmpty /\ fits
                               THEN AssignSlice(zeros, dstRows, dstCols,
                                                srcRows, srcCols)
                               ELSE zeros]
    /\ UNCHANGED <<anim, cfg, env, pc, i, emitted, accepted, sinkState, opens,
                   closes, faultAt, outcome>>

NextClip == PlaceText

SpecClip == InitClip /\ [][NextClip]_vars

-----------------------------------------------------------------------------
(* Properties.                                                              *)

Completed == pc = "done" /\ outcome = "success" /\ faultAt = -1

\* C1: in both animations the k-th frame handed to the sink carries index
\* k-1, the sink takes frames in the same order, and a run that completes
\* without a sink fault has written every index 0..N-1 exactly once.
C1_FramesInOrder ==
    anim \in {"sweep", "scroll"} =>
        /\ \A k \in 1 .. Len(emitted) : emitted[k].idx = k - 1
        /\ \A k \in 1 .. Len(accepted) : accepted[k] = k - 1
        /\ Completed =>
              /\ Len(accepted) = Max(0, TOTAL_FRAMES(cfg))
              /\ Len(emitted) = Len(accepted)

C1_Witness ==
    /\ Completed
    /\ anim = "scroll"
    /\ Len(accepted) >= 4

\* C2: in the sweep a frame goes through the mask/composite path iff
\* start_frame <= i < end_frame; every other frame is the static base image,
\* equal to every other static frame; the default timeline (2.5 s, start
\* 0.5 s, effect 1.0 s, 30 fps) has 75 frames of which exactly 15..44 are
\* animating, and frames 0..14 and 60..74 are the static base.
C2_SweepWindow ==
    anim = "sweep" =>
        LET start_frame == IntTrunc(cfg.start * cfg.fps, cfg.den)
            end_frame == start_frame + IntTrunc(cfg.dur * cfg.fps, cfg.den)
            content(f) == <<f.kind, f.progress, f.eased>>
        IN  /\ \A k \in 1 .. Len(emitted) :
                  (emitted[k].kind = "composite") <=>
                      (start_frame <= emitted[k].idx /\ emitted[k].idx < end_frame)
            /\ \A k \in 1 .. Len(emitted) : \A m \in 1 .. Len(emitted) :
                  (emitted[k].kind = "base" /\ emitted[m].kind = "base") =>
                      content(emitted[k]) = content(emitted[m])
            /\ (Completed /\ cfg = DefaultSweepCfg) =>
                  /\ Len(emitted) = 75
                  /\ {emitted[k].idx : k \in {m \in 1 .. 75 :
                          emitted[m].kind = "composite"}} = 15 .. 44
                  /\ \A k \in (1 .. 15) \cup (61 .. 75) :
                          emitted[k].kind = "base"

C2_Witness ==
    /\ Completed
    /\ anim = "sweep"
    /\ cfg = DefaultSweepCfg
    /\ Len(emitted) = 75

PositiveTimeline == cfg.total > 0 /\ cfg.fps > 0

\* C3 as stated: a complete run of a positive timeline writes
\* round(total_duration * fps) frames (either neighbour accepted on a tie).
C3_FrameCountIsRounded ==
    (anim \in {"sweep", "scroll"} /\ Completed /\ PositiveTimeline) =>
        Len(accepted) \in Nearest(cfg.total * cfg.fps, cfg.den)

\* C3 amended: a complete run of a positive timeline writes
\* int(total_duration * fps) frames, the product truncated toward zero, a
\* function of the timeline configuration only.
C3_FrameCountIsTruncated ==
    (anim \in {"sweep", "scroll"} /\ Completed /\ PositiveTimeline) =>
        /\ Len(accepted) = (cfg.total * cfg.fps) \div cfg.den
        /\ Len(emitted) = (cfg.total * cfg.fps) \div cfg.den

C3_Witness ==
    /\ Completed
    /\ PositiveTimeline
    /\ 2 * ((cfg.total * cfg.fps) % cfg.den) > cfg.den
    /\ Len(accepted) >= 1

\* C4 as stated: once the sink cannot accept frame k, no frame with a larger
\* index is produced or written and the run ends in a fatal error, never in
\* the normal finished/saved outcome.
C4_SinkFailureStopsRun ==
    faultAt # -1 =>
        /\ \A k \in 1 .. Len(emitted) : emitted[k].idx <= faultAt
        /\ outcome # "success"
        /\ pc = "done" => outcome = "raised"

\* C5 as stated: the sink is opened at most once and before the first write,
\* closed exactly once on every exit path after it was opened, never written
\* after the close, and no run ends with the sink still open.
C5_SinkClosedOnEveryPath ==
    /\ opens <= 1
    /\ closes <= opens
    /\ Len(emitted) > 0 => opens = 1
    /\ sinkState = "closed" => pc = "done"
    /\ (pc = "done" /\ opens = 1) => (closes = 1 /\ sinkState = "closed")

WindowFirst == IF anim = "sweep" THEN ANIM_START_FRAME(cfg) ELSE 0

WindowCount ==
    IF anim = "sweep"
    THEN ANIM_END_FRAME(cfg) - ANIM_START_FRAME(cfg)
    ELSE TOTAL_FRAMES(cfg)

\* C6 as stated: every progress value passed to the easing function lies in
\* [0,1]; the first frame of the window has progress 0; the last frame of
\* the window has progress exactly 1 when the window has more than one
\* frame, and 0 when it has one.
C6_ProgressEndsAtOne ==
    anim \in {"sweep", "scroll"} =>
        \A k \in 1 .. Len(emitted) :
            LET f == emitted[k]
                n == f.progress[1]
                d == f.progress[2]
            IN  f.kind = "composite" =>
                    /\ d > 0 /\ 0 <= n /\ n <= d
                    /\ f.idx = WindowFirst => n = 0
                    /\ f.idx = WindowFirst + WindowCount - 1 =>
                          IF WindowCount > 1 THEN n = d ELSE n = 0

InvalidTimeline ==
    \/ cfg.total <= 0
    \/ cfg.fps <= 0
    \/ anim = "sweep" /\ ANIM_END_FRAME(cfg) = ANIM_START_FRAME(cfg)

\* C7 as stated: a timeline with non-positive duration or frame rate, or an
\* effect window of zero frames, is rejected before anything else happens:
\* the sink is never opened, no frame is written, the run does not succeed.
C7_InvalidTimelineRejected ==
    (anim \in {"sweep", "scroll"} /\ InvalidTimeline) =>
        /\ opens = 0
        /\ emitted = <<>>
        /\ outcome # "success"

AssetUnreadable ==
    \/ ~env.assetExists
    \/ env.assetLoad \in {"none", "ioerror", "fallback_fail"}

SinkUnavailable == ~env.sinkStarts

\* C8: with a missing or undecodable asset, or a sink that cannot be started,
\* the run aborts before the frame loop: no frame is handed to or taken by
\* the sink, and with an unreadable asset the sink is never opened.
C8_AbortBeforeLoop ==
    anim \in {"sweep", "scroll"} =>
        /\ (AssetUnreadable \/ SinkUnavailable) =>
              /\ emitted = <<>>
              /\ accepted = <<>>
              /\ pc # "loop"
              /\ outcome \in {"running", "returned_error", "exit_1"}
        /\ AssetUnreadable => (opens = 0 /\ sinkState = "unopened")

C8_Witness ==
    /\ pc = "done"
    /\ anim = "sweep"
    /\ env.assetExists /\ env.assetLoad = "none" /\ env.sinkStarts
    /\ outcome = "returned_error"

\* a <= b for rationals <<n, d>> with positive denominators
RatLeq(a, b) == a[1] * b[2] <= b[1] * a[2]

\* C9: on the grid of rationals k/n in [0,1], both easing functions give a
\* value in [0,1], map 0 to 0 and 1 to 1, and are monotonic non-decreasing
\* (also across the cubic's branch at t = 1/2).
C9_EasingContract ==
    (fn.kind = "ease" /\ fn.applied) =>
        /\ fn.r1[2] > 0
        /\ 0 <= fn.r1[1] /\ fn.r1[1] <= fn.r1[2]
        /\ fn.t1[1] = 0 => fn.r1[1] = 0
        /\ fn.t1[1] = fn.t1[2] => fn.r1[1] = fn.r1[2]
        /\ RatLeq(fn.t1, fn.t2) => RatLeq(fn.r1, fn.r2)

C9_Witness ==
    /\ fn.kind = "ease" /\ fn.applied
    /\ fn.curve = "ease_in_out_cubic"
    /\ 2 * fn.t1[1] < fn.t1[2]
    /\ 2 * fn.t2[1] > fn.t2[2]
    /\ fn.r1[1] > 0
    /\ fn.r2[1] < fn.r2[2]

OnRows == {r \in 0 .. fn.frame_h - 1 :
              \A c \in 0 .. fn.frame_w - 1 : fn.mask[r][c] = 255}

\* C10 as stated: for 0 < visible_strip_h <= frame_h the strip before the
\* blur is a contiguous band of exactly visible_strip_h fully-on rows, with
\* the numbers of off rows above and below differing by at most one.
C10_StripHasVisibleHeight ==
    (fn.kind = "mask" /\ fn.built /\ 0 < fn.visible_strip_h) =>
        /\ Cardinality(OnRows) = fn.visible_strip_h
        /\ \A a \in OnRows : \A b \in OnRows :
              \A r \in 0 .. fn.frame_h - 1 : (a <= r /\ r <= b) => r \in OnRows
        /\ \A a \in OnRows : \A b \in OnRows :
              (a - 1 \notin OnRows /\ b + 1 \notin OnRows) =>
                  LET above == a
                      below == fn.frame_h - 1 - b
                  IN  above - below \in {-1, 0, 1}

\* C11: for every integer offset current_y_pil_top and every text-image size
\* (also larger than the frame), whenever the clipped copy is performed the
\* destination and source rectangles are non-empty, in bounds and of equal
\* size, the copy does not fail, and source pixel (r, c) lands on canvas
\* pixel (r + current_y_pil_top, c + dst_x_offset_canvas); the rest of the
\* canvas stays transparent.  When the text lies wholly above or below the
\* frame the copy is skipped and the whole canvas stays transparent.
C11_ClipInBoundsAndCongruent ==
    (fn.kind = "clip" /\ fn.placed) =>
        LET FW == fn.in.FRAME_WIDTH
            FH == fn.in.FRAME_HEIGHT
            tw == fn.in.text_img_w
            th == fn.in.text_img_h
            y == fn.in.current_y_pil_top
            x == (FW - tw) \div 2
        IN  /\ ~fn.raised
            /\ fn.copied =>
                  /\ 0 <= fn.dst_y[1] /\ fn.dst_y[1] < fn.dst_y[2] /\ fn.dst_y[2] <= FH
                  /\ 0 <= fn.dst_x[1] /\ fn.dst_x[1] < fn.dst_x[2] /\ fn.dst_x[2] <= FW
                  /\ 0 <= fn.src_y[1] /\ fn.src_y[1] < fn.src_y[2] /\ fn.src_y[2] <= th
                  /\ 0 <= fn.src_x[1] /\ fn.src_x[1] < fn.src_x[2] /\ fn.src_x[2] <= tw
                  /\ fn.dst_y[2] - fn.dst_y[1] = fn.src_y[2] - fn.src_y[1]
                  /\ fn.dst_x[2] - fn.dst_x[1] = fn.src_x[2] - fn.src_x[1]
                  /\ \A r \in 0 .. FH - 1 : \A c \in 0 .. FW - 1 :
                        fn.canvas[r][c] =
                            IF /\ 0 <= r - y /\ r - y < th
                               /\ 0 <= c - x /\ c - x < tw
                            THEN <<r - y, c - x>>
                            ELSE Transparent
            /\ (y >= FH \/ y + th <= 0) =>
                  /\ ~fn.copied
                  /\ \A r \in 0 .. FH - 1 : \A c \in 0 .. FW - 1 :
                        fn.canvas[r][c] = Transparent

C11_Witness ==
    /\ fn.kind = "clip" /\ fn.placed /\ fn.copied
    /\ fn.in.current_y_pil_top < 0
    /\ fn.in.current_y_pil_top + fn.in.text_img_h > fn.in.FRAME_HEIGHT
    /\ fn.in.text_img_w > fn.in.FRAME_WIDTH
    /\ fn.in.FRAME_HEIGHT >= 2

====
